---- MODULE Spec2Model ----
(***************************************************************************)
(* Model of the resume-analyzer backend: the retrying Gemini client        *)
(* (app/services/gemini_service.py), the scoring function                  *)
(* (app/services/scoring_service.py), the Celery tasks (app/tasks.py) and  *)
(* the request handlers that drive the status of internal applications     *)
(* and external candidates (app/routers/*.py).                             *)
(*                                                                         *)
(* Numbers that are floats in the program are integers here, in            *)
(* hundredths: 0.5 is 50, a keyword score of 8 is 800.                     *)
(***************************************************************************)
EXTENDS Integers, Sequences, FiniteSets, TLC

\* ------------------------------------------------------------------------
\* Bounds of the model
\* ------------------------------------------------------------------------
MaxApps == 2
MaxExts == 2
MaxPayload == 2
MaxFiles == 1
MaxPending == 1
MaxResults == 11
MaxBatch == 2
MaxCalls == 2

\* ------------------------------------------------------------------------
\* Program constants
\* ------------------------------------------------------------------------
MAX_RETRIES == 3

\* a NULL final_score column (Float, nullable=True)
NULL == -1

\* ------------------------------------------------------------------------
\* JSON values read by the scoring function: a number (in hundredths), a
\* present value that float() rejects (null, "n/a"), or an absent key.
\* The two that are no numbers are written as integers far below every
\* number a document of the model holds.  NotMapping stands in a score
\* field for a section that is present but is no mapping (null, a string,
\* a list), and in must_have_skills for an entry that is no mapping.
\* ------------------------------------------------------------------------
Num(v) == v
NonNum == -1000002
Absent == -1000001
NotMapping == -1000003
IsNum(value) == value \notin {NonNum, Absent, NotMapping}

\* ------------------------------------------------------------------------
\* Schemas: the top-level "required" list of each response schema.
\* ------------------------------------------------------------------------
Schemas == {"jd_summary", "profile", "candidate", "interviewer"}

Required(schema) ==
    CASE schema = "candidate" ->
            {"company", "role", "swot_analysis", "requiredskills",
             "concepts_revision", "QA", "company_insights"}
      [] schema = "interviewer" ->
            {"candidate_info", "job_requirements", "resume_analysis",
             "preliminary_assessment", "screening_decision"}
      [] schema = "jd_summary" ->
            {"job_metadata", "job_requirements", "job_responsibilities",
             "keywords", "job_summary"}
      [] schema = "profile" -> {"summary"}

\* A document: the schema it was asked for, the required top-level keys
\* it lacks, and the values the scoring function reads from it (Absent in
\* documents of the other schemas). src tells the model's text from the
\* built-in fallback.
Doc(schema, src, missing, tech, exp, kw, skills) ==
    [schema |-> schema, src |-> src, missing |-> missing,
     technical_fit_score |-> tech, experience_fit_score |-> exp,
     keyword_match_score |-> kw, must_have_skills |-> skills]

\* a NULL JSON column: no document, so nothing to read from it
NoDoc == [schema |-> "none", src |-> "none"]

\* JSON text that parses to something else than an object (a list, null)
NotMappingDoc == [schema |-> "interviewer", src |-> "model"]

\* a dict, as opposed to None or a list
IsMapping(doc) == "missing" \in DOMAIN doc

\* the {} that approve_request and add_candidate_to_job store when the
\* analysis raises
EmptyDoc == Doc("none", "empty", {}, Absent, Absent, Absent, <<>>)

\* the fallback literal of each generate_* function: every required
\* top-level key is there; the interviewer view has scores 0 and no skills
Fallback(schema) ==
    CASE schema = "interviewer" ->
            Doc("interviewer", "fallback", {}, Num(0), Num(0), Num(0), <<>>)
      [] schema = "candidate" ->
            Doc("candidate", "fallback", {}, Absent, Absent, Absent, <<>>)
      [] schema = "jd_summary" ->
            Doc("jd_summary", "fallback", {}, Absent, Absent, Absent, <<>>)
      [] schema = "profile" ->
            Doc("profile", "fallback", {}, Absent, Absent, Absent, <<>>)

\* The required-field set of a schema, as far as a document of the model
\* shows it: every top-level required key, and for the interviewer view the
\* required score fields of its sections.
SatisfiesRequired(doc, schema) ==
    /\ doc.schema = schema
    /\ doc.missing \cap Required(schema) = {}
    /\ schema = "interviewer" =>
          /\ doc.technical_fit_score # Absent
          /\ doc.experience_fit_score # Absent
          /\ doc.keyword_match_score # Absent
          /\ \A i \in 1..Len(doc.must_have_skills) :
                doc.must_have_skills[i] # Absent

\* ------------------------------------------------------------------------
\* Required fields at every nesting level.  A path names a key inside the
\* objects that enclose it; the "required" list of the items of an array
\* binds the elements of the array, so it gives no path of its own.
\* ------------------------------------------------------------------------
JdSummaryRequiredPaths ==
    { "job_metadata", "job_metadata.job_name",
      "job_metadata.company_name", "job_requirements",
      "job_requirements.must_have_skills", "job_requirements.experience",
      "job_requirements.experience.minimum_years", "job_responsibilities",
      "job_responsibilities.primary_duties", "keywords", "job_summary" }

ProfileRequiredPaths ==
    { "summary" }

CandidateRequiredPaths ==
    { "company", "role", "swot_analysis", "swot_analysis.strengths",
      "swot_analysis.weaknesses", "swot_analysis.opportunities",
      "swot_analysis.threats", "requiredskills", "concepts_revision",
      "QA", "company_insights" }

InterviewerRequiredPaths ==
    { "candidate_info", "candidate_info.name", "candidate_info.contact",
      "candidate_info.contact.email",
      "candidate_info.years_of_experience", "job_requirements",
      "job_requirements.must_have_skills",
      "job_requirements.good_to_have_skills", "resume_analysis",
      "resume_analysis.education_match",
      "resume_analysis.education_match.required_education",
      "resume_analysis.education_match.candidate_education",
      "resume_analysis.education_match.match_score",
      "resume_analysis.education_match.score_reasoning",
      "resume_analysis.experience_match",
      "resume_analysis.experience_match.required_years",
      "resume_analysis.experience_match.candidate_years",
      "resume_analysis.experience_match.relevant_experience_score",
      "resume_analysis.experience_match.score_reasoning",
      "resume_analysis.skill_gaps", "resume_analysis.keyword_match_score",
      "resume_analysis.keyword_match_reasoning", "preliminary_assessment",
      "preliminary_assessment.technical_fit_score",
      "preliminary_assessment.technical_fit_reasoning",
      "preliminary_assessment.experience_fit_score",
      "preliminary_assessment.experience_fit_reasoning",
      "preliminary_assessment.potential_culture_fit",
      "preliminary_assessment.culture_fit_reasoning",
      "screening_decision", "screening_decision.decision_reasoning",
      "screening_decision.interview_type", "screening_decision.priority",
      "screening_decision.priority_justification" }

RequiredPaths(schema) ==
    CASE schema = "jd_summary" -> JdSummaryRequiredPaths
      [] schema = "profile" -> ProfileRequiredPaths
      [] schema = "candidate" -> CandidateRequiredPaths
      [] schema = "interviewer" -> InterviewerRequiredPaths

\* the keys of the fallback literals, at every nesting level (their arrays
\* are empty)
JdSummaryFallbackPaths ==
    { "job_metadata", "job_metadata.job_name",
      "job_metadata.company_name", "job_requirements",
      "job_requirements.must_have_skills", "job_requirements.experience",
      "job_requirements.experience.minimum_years", "job_responsibilities",
      "job_responsibilities.primary_duties", "keywords", "job_summary" }

ProfileFallbackPaths ==
    { "summary", "strengths", "weaknesses", "suggested_roles" }

CandidateFallbackPaths ==
    { "company", "role", "swot_analysis", "swot_analysis.strengths",
      "swot_analysis.weaknesses", "swot_analysis.opportunities",
      "swot_analysis.threats", "requiredskills", "concepts_revision",
      "QA", "company_insights" }

InterviewerFallbackPaths ==
    { "candidate_info", "candidate_info.name", "candidate_info.contact",
      "candidate_info.contact.email",
      "candidate_info.years_of_experience", "job_requirements",
      "job_requirements.must_have_skills",
      "job_requirements.good_to_have_skills", "resume_analysis",
      "resume_analysis.education_match",
      "resume_analysis.education_match.required_education",
      "resume_analysis.education_match.candidate_education",
      "resume_analysis.education_match.match_score",
      "resume_analysis.education_match.score_reasoning",
      "resume_analysis.experience_match",
      "resume_analysis.experience_match.required_years",
      "resume_analysis.experience_match.candidate_years",
      "resume_analysis.experience_match.relevant_experience_score",
      "resume_analysis.experience_match.score_reasoning",
      "resume_analysis.skill_gaps", "resume_analysis.keyword_match_score",
      "resume_analysis.keyword_match_reasoning", "preliminary_assessment",
      "preliminary_assessment.technical_fit_score",
      "preliminary_assessment.technical_fit_reasoning",
      "preliminary_assessment.experience_fit_score",
      "preliminary_assessment.experience_fit_reasoning",
      "preliminary_assessment.potential_culture_fit",
      "preliminary_assessment.culture_fit_reasoning",
      "screening_decision", "screening_decision.decision_reasoning",
      "screening_decision.interview_type", "screening_decision.priority",
      "screening_decision.priority_justification" }

FallbackPathsNoPriority(schema) ==
    CASE schema = "jd_summary" -> JdSummaryFallbackPaths
      [] schema = "profile" -> ProfileFallbackPaths
      [] schema = "candidate" -> CandidateFallbackPaths
      [] schema = "interviewer" ->
            InterviewerFallbackPaths \ {"screening_decision.priority"}

FallbackPaths(schema) ==
    CASE schema = "jd_summary" -> JdSummaryFallbackPaths
      [] schema = "profile" -> ProfileFallbackPaths
      [] schema = "candidate" -> CandidateFallbackPaths
      [] schema = "interviewer" -> InterviewerFallbackPaths

\* ------------------------------------------------------------------------
\* What the external model can answer to one generate_content call.
\* ------------------------------------------------------------------------
\* documents the external model may send as JSON text
ModelDocs(schema) ==
    CASE schema = "interviewer" ->
            { Doc("interviewer", "model", {},
                  Num(80), Num(60), Num(800), <<Num(100)>>),
              \* valid JSON, but without "screening_decision" and the
              \* technical score, and with the experience score on a
              \* scale of 0 to 10
              Doc("interviewer", "model", {"screening_decision"},
                  Absent, Num(600), Num(800), <<>>) }
      [] schema = "candidate" ->
            { Doc("candidate", "model", {}, Absent, Absent, Absent, <<>>) }
      [] schema = "jd_summary" ->
            { Doc("jd_summary", "model", {"job_metadata", "keywords"},
                  Absent, Absent, Absent, <<>>) }
      [] schema = "profile" ->
            { Doc("profile", "model", {}, Absent, Absent, Absent, <<>>) }

\* one call: a transport error raised by generate_content, an empty
\* response.text, text that json.loads rejects, or JSON text
Responses(schema) ==
    { [kind |-> "error", doc |-> NoDoc],
      [kind |-> "empty", doc |-> NoDoc],
      [kind |-> "garbage", doc |-> NoDoc] }
    \cup { [kind |-> "json", doc |-> d] : d \in ModelDocs(schema) }

\* the answers to the (at most MAX_RETRIES) calls of one invocation
ModelRuns(schema) == [1..MAX_RETRIES -> Responses(schema)]

\* ------------------------------------------------------------------------
\* gemini_service._parse_with_retry
\* ------------------------------------------------------------------------
\* the exception one attempt ends with, "" when it returns
AttemptException(response) ==
    CASE response.kind = "error" -> "TransportError"
      [] response.kind = "empty" -> "ValueError"
      [] response.kind = "garbage" -> "JSONDecodeError"
      [] OTHER -> ""

ExceptValueErrorOnly(exc) == exc \in {"ValueError", "JSONDecodeError"}

\* `except Exception as e`: every exception of an attempt is caught
ExceptException(exc) == exc \in {"TransportError", "ValueError", "JSONDecodeError"}

AttemptsOneShort == 1..(MAX_RETRIES - 1)

\* `for attempt in range(1, MAX_RETRIES + 1)`
Attempts == 1..MAX_RETRIES

RECURSIVE RetryLoop(_, _, _)
RetryLoop(run, fallback, attempt) ==
    IF attempt \notin Attempts
    THEN [doc |-> fallback, calls |-> attempt - 1, raised |-> FALSE]
    ELSE LET exc == AttemptException(run[attempt]) IN
         IF exc = ""
         THEN [doc |-> run[attempt].doc, calls |-> attempt, raised |-> FALSE]
         ELSE IF ExceptException(exc)
              THEN RetryLoop(run, fallback, attempt + 1)
              ELSE [doc |-> NoDoc, calls |-> attempt, raised |-> TRUE]

parse_to_the_last_attempt(run, fallback) ==
    LET parsed == { i \in Attempts : AttemptException(run[i]) = "" } IN
    IF parsed = {}
    THEN [doc |-> fallback, calls |-> MAX_RETRIES, raised |-> FALSE]
    ELSE [doc |-> run[CHOOSE i \in parsed : \A k \in parsed : k <= i].doc,
          calls |-> MAX_RETRIES, raised |-> FALSE]

parse_with_retry(run, fallback) == RetryLoop(run, fallback, 1)


\* ------------------------------------------------------------------------
\* scoring_service
\* ------------------------------------------------------------------------
Max2Second(a, b) == b

Max2(a, b) == IF a >= b THEN a ELSE b

Min2Second(a, b) == b

Min2(a, b) == IF a <= b THEN a ELSE b

\* _safe_float: float(value) clamped to [min_val, max_val]; the default
\* when float() raises TypeError or ValueError
safe_float_midpoint(value, default, min_val, max_val) ==
    IF IsNum(value)
    THEN Max2(min_val, Min2(max_val, value))
    ELSE (min_val + max_val) \div 2

safe_float(value, default, min_val, max_val) ==
    IF IsNum(value)
    THEN Max2(min_val, Min2(max_val, value))
    ELSE default

GetZero(value, default) == IF value = Absent THEN 0 ELSE value

\* dict.get(key, default)
Get(value, default) == IF value = Absent THEN default ELSE value

\* round(x, 2) of the fraction n / d of hundredths.  An exact half is where
\* the binary representation of the float decides; no document of the
\* model scores an exact half.
Round2(n, d) ==
    LET q == n \div d
        r == n % d
    IN  IF 2 * r < d THEN q
        ELSE IF 2 * r > d THEN q + 1
        ELSE IF q % 2 = 0 THEN q ELSE q + 1

RECURSIVE SumProficiency(_, _)
SumProficiency(skills, i) ==
    IF i > Len(skills) THEN 0
    ELSE safe_float(Get(skills[i], Num(50)), 0, 0, 100)
         + SumProficiency(skills, i + 1)

\* whether a top-level section is in the document
HasSection(interviewer_json, section) ==
    section \notin interviewer_json.missing

\* The exception the body of calculate_final_score ends with, "" when it
\* reaches its return: .get on a document or a section that is no mapping,
\* or on an entry of must_have_skills that is no mapping.
ScoreException(interviewer_json) ==
    IF ~IsMapping(interviewer_json) THEN "AttributeError"
    ELSE IF \/ /\ HasSection(interviewer_json, "preliminary_assessment")
               /\ interviewer_json.technical_fit_score = NotMapping
            \/ /\ HasSection(interviewer_json, "resume_analysis")
               /\ interviewer_json.keyword_match_score = NotMapping
            \/ /\ HasSection(interviewer_json, "job_requirements")
               /\ \E i \in 1..Len(interviewer_json.must_have_skills) :
                     interviewer_json.must_have_skills[i] = NotMapping
    THEN "AttributeError"
    ELSE ""

ScoreExceptNothing(exc) == FALSE

\* `except Exception as e` of calculate_final_score
ScoreExceptException(exc) == exc \in {"AttributeError", "TypeError"}

WeightedSumSwapped(tech_score, exp_score, keyword_score_raw) ==
    tech_score * 30 + exp_score * 40 + keyword_score_raw * 2

\* tech * 0.40 + exp * 0.30 + (keyword / 10) * 0.20, in units of 1/10000
WeightedSum(tech_score, exp_score, keyword_score_raw) ==
    tech_score * 40 + exp_score * 30 + keyword_score_raw * 2

\* The try block of calculate_final_score, in hundredths.  The weighted sum
\* is kept as the exact fraction (weighted * n + 10 * sum) / (100 * n), n
\* the number of must-have skills.
WeightedScore(interviewer_json) ==
    LET has(section) == HasSection(interviewer_json, section)
        tech_score ==
            safe_float(Get(IF has("preliminary_assessment")
                           THEN interviewer_json.technical_fit_score
                           ELSE Absent, Num(50)), 0, 0, 100)
        exp_score ==
            safe_float(Get(IF has("preliminary_assessment")
                           THEN interviewer_json.experience_fit_score
                           ELSE Absent, Num(50)), 0, 0, 100)
        keyword_score_raw ==
            safe_float(Get(IF has("resume_analysis")
                           THEN interviewer_json.keyword_match_score
                           ELSE Absent, Num(500)), 500, 0, 1000)
        must_have_skills ==
            IF has("job_requirements")
            THEN interviewer_json.must_have_skills ELSE <<>>
        n == IF must_have_skills # <<>> THEN Len(must_have_skills) ELSE 1
        skill_sum == IF must_have_skills # <<>>
                     THEN SumProficiency(must_have_skills, 1)
                     ELSE 50
        weighted == WeightedSum(tech_score, exp_score, keyword_score_raw)
        final == Round2(weighted * n + 10 * skill_sum, 100 * n)
    IN  Max2(0, Min2(100, final))

\* calculate_final_score with its except branch: the score, or raised
\* when an exception leaves the function
ScoreOutcome(interviewer_json) ==
    LET exc == ScoreException(interviewer_json) IN
    IF exc = ""
    THEN [raised |-> FALSE, value |-> WeightedScore(interviewer_json)]
    ELSE IF ScoreExceptException(exc)
    THEN [raised |-> FALSE, value |-> 50]
    ELSE [raised |-> TRUE, value |-> NULL]

calculate_final_score(interviewer_json) == ScoreOutcome(interviewer_json).value

\* every outcome of generate_candidate_analysis / generate_interviewer_analysis
\* over the answers of the external model
generate_candidate_analysis_outcomes ==
    { [doc |-> o.doc, raised |-> o.raised] :
        o \in { parse_with_retry(r, Fallback("candidate")) :
                  r \in ModelRuns("candidate") } }

generate_interviewer_analysis_outcomes ==
    { [doc |-> o.doc, raised |-> o.raised] :
        o \in { parse_with_retry(r, Fallback("interviewer")) :
                  r \in ModelRuns("interviewer") } }

\* The AI pipeline shared by the handlers and the tasks: the two documents
\* and the score, or raised when one of the calls raised.
Pipeline(co, io) ==
    LET raised == co.raised \/ io.raised \/ ScoreOutcome(io.doc).raised IN
    [raised |-> raised,
     candidate_analysis |-> co.doc,
     interviewer_analysis |-> io.doc,
     final_score |-> IF raised THEN NULL
                     ELSE calculate_final_score(io.doc)]

Pipelines ==
    { Pipeline(co, io) : co \in generate_candidate_analysis_outcomes,
                         io \in generate_interviewer_analysis_outcomes }

\* ------------------------------------------------------------------------
\* The database and the broker
\* ------------------------------------------------------------------------
JobIds == {1}
AppIds == 1..MaxApps
ExtIds == 1..MaxExts
Users == {1, 2}
Names == {"a", "b"}

\* models.JobApplication; status "none" is a row that does not exist
AppRow(job, user, status, score, ac, ai) ==
    [job_id |-> job, user_id |-> user, status |-> status,
     final_score |-> score, analysis_candidate |-> ac,
     analysis_interviewer |-> ai]

NoApp == AppRow(0, 0, "none", NULL, NoDoc, NoDoc)

\* models.ExternalCandidate; status "none" is a row that does not exist
ExtRow(job, name, text, status, score, ac, ai) ==
    [job_id |-> job, name |-> name, raw_resume_text |-> text,
     status |-> status, final_score |-> score, analysis_candidate |-> ac,
     analysis_interviewer |-> ai]

NoExt == ExtRow(0, "", "", "none", NULL, NoDoc, NoDoc)

\* the last request and its HTTP response: the handler, the job and user
\* of its path (0 when it has none), the status code and, where the detail
\* message quotes an application status, that status
Resp(op, job, user, code, status) ==
    [op |-> op, job_id |-> job, user_id |-> user, code |-> code,
     status |-> status]

\* the last run of a task and how it ended: "dropped" (an early return),
\* "committed", or "raised" (rollback, then the exception leaves the task)
TaskRun(task, job, id, outcome) ==
    [op |-> task, job_id |-> job, user_id |-> id, code |-> 0,
     status |-> outcome]

VARIABLES
    retry,      \* one invocation of a generate_* function: its schema, the
                \* model's answers, the outcome once it has returned, and
                \* the score calculate_final_score gives the document
    jobs,       \* ids of the job_descriptions rows
    nextJob,    \* next id of job_descriptions
    resumes,    \* per user: "none" (no row), "empty" or "text" (parsed_text)
    apps,       \* job_applications, by id
    nextApp,    \* next id of job_applications
    exts,       \* external_candidates, by id
    nextExt,    \* next id of external_candidates
    queue,      \* pending process_internal_resume(job_id, user_id) messages
    lastResp,   \* the response of the last request, or the outcome of the
                \* last task run
    calls       \* the requests and task runs in progress, statement by
                \* statement, each with its own database session

vars == <<calls, retry, jobs, nextJob, resumes, apps, nextApp, exts, nextExt, queue,
          lastResp>>

dbvars == <<jobs, nextJob, resumes, apps, nextApp, exts, nextExt, queue>>

RetryIdle ==
    [schema |-> "none", run |-> <<>>, pc |-> "idle",
     out |-> [doc |-> NoDoc, calls |-> 0, raised |-> FALSE],
     final_score |-> NULL]

CallIds == 1..MaxCalls

\* A request or a task run in progress: its handler and its position in
\* it, the job and the users of the request, the loop index, the users
\* attach_internal will enqueue and the ids its commit gave their rows, the
\* application the handler loaded, the results of the AI pipeline, whether
\* any model call was answered with JSON, and once it has ended its status
\* code or task outcome and the notification it stored.
NoCall ==
    [op |-> "none", pc |-> "idle", job_id |-> 0, user_ids |-> <<>>,
     queued_users |-> <<>>, inserted |-> <<>>, app |-> 0,
     candidate_analysis |-> NoDoc, interviewer_analysis |-> NoDoc,
     final_score |-> NULL, answered |-> FALSE, code |-> 0, outcome |-> "",
     notified |-> ""]

\* the empty tables and the empty queue of a fresh deployment, with
\* nothing in progress
TablesInit ==
    /\ calls = [c \in CallIds |-> NoCall]
    /\ jobs = {}
    /\ nextJob = 1
    /\ resumes = [u \in Users |-> "none"]
    /\ apps = [a \in AppIds |-> NoApp]
    /\ nextApp = 1
    /\ exts = [c \in ExtIds |-> NoExt]
    /\ nextExt = 1
    /\ queue = [t \in JobIds \X Users |-> 0]

DbInit ==
    /\ TablesInit
    /\ lastResp = Resp("none", 0, 0, 0, "")

Init == DbInit /\ retry = RetryIdle

\* rows of job_applications matching a filter on job and user
AppsOf(as, j, u) ==
    { a \in AppIds : as[a].status # "none" /\ as[a].job_id = j
                     /\ as[a].user_id = u }

HasText(u) == resumes[u] = "text"

\* ------------------------------------------------------------------------
\* candidate_router
\* ------------------------------------------------------------------------
\* POST /profile/upload-resume: a PDF without extractable text is refused,
\* otherwise the Resume row is created or overwritten
upload_profile_resume(u) ==
    /\ \E extracted \in {"", "text"} :
          IF extracted = ""
          THEN /\ lastResp' = Resp("upload_profile_resume", 0, u, 400, "")
               /\ UNCHANGED resumes
          ELSE /\ resumes' = [resumes EXCEPT ![u] = "text"]
               /\ lastResp' = Resp("upload_profile_resume", 0, u, 200, "")
    /\ UNCHANGED <<calls, retry, jobs, nextJob, apps, nextApp, exts, nextExt, queue>>

\* DELETE /internal/{candidate_id}
delete_internal_candidate(a) ==
    /\ IF apps[a].status = "none"
       THEN /\ lastResp' = Resp("delete_internal_candidate", 0, 0, 404, "")
            /\ UNCHANGED apps
       ELSE /\ apps' = [apps EXCEPT ![a] = NoApp]
            /\ lastResp' = Resp("delete_internal_candidate", 0, 0, 200, "")
    /\ UNCHANGED <<calls, retry, jobs, nextJob, resumes, nextApp, exts, nextExt, queue>>

\* DELETE /external/{candidate_id}
delete_external_candidate(c) ==
    /\ IF exts[c].status = "none"
       THEN /\ lastResp' = Resp("delete_external_candidate", 0, 0, 404, "")
            /\ UNCHANGED exts
       ELSE /\ exts' = [exts EXCEPT ![c] = NoExt]
            /\ lastResp' = Resp("delete_external_candidate", 0, 0, 200, "")
    /\ UNCHANGED <<calls, retry, jobs, nextJob, resumes, apps, nextApp, nextExt, queue>>

\* ------------------------------------------------------------------------
\* job_router
\* ------------------------------------------------------------------------
\* POST /jobs/upload: the JD is summarised (generate_jd_summary never
\* fails the upload) and a job row is inserted
upload_jd ==
    /\ nextJob \in JobIds
    /\ \E jd_text \in {"", "text"} :
          IF jd_text = ""
          THEN /\ lastResp' = Resp("upload_jd", 0, 0, 400, "")
               /\ UNCHANGED <<jobs, nextJob>>
          ELSE /\ jobs' = jobs \cup {nextJob}
               /\ nextJob' = nextJob + 1
               /\ lastResp' = Resp("upload_jd", 0, 0, 200, "")
    /\ UNCHANGED <<calls, retry, resumes, apps, nextApp, exts, nextExt, queue>>

\* DELETE /jobs/{job_id}: the relationships cascade to the job's
\* applications and external candidates
delete_job(j) ==
    /\ IF j \notin jobs
       THEN /\ lastResp' = Resp("delete_job", j, 0, 404, "")
            /\ UNCHANGED <<jobs, apps, exts>>
       ELSE /\ jobs' = jobs \ {j}
            /\ apps' = [a \in AppIds |->
                          IF apps[a].job_id = j THEN NoApp ELSE apps[a]]
            /\ exts' = [c \in ExtIds |->
                          IF exts[c].job_id = j THEN NoExt ELSE exts[c]]
            /\ lastResp' = Resp("delete_job", j, 0, 200, "")
    /\ UNCHANGED <<calls, retry, nextJob, resumes, nextApp, nextExt, queue>>

\* POST /jobs/{job_id}/request
request_job(j, u) ==
    /\ IF j \notin jobs
       THEN /\ lastResp' = Resp("request_job", j, u, 404, "")
            /\ UNCHANGED <<apps, nextApp>>
       ELSE IF resumes[u] = "none"
       THEN /\ lastResp' = Resp("request_job", j, u, 400, "")
            /\ UNCHANGED <<apps, nextApp>>
       ELSE IF AppsOf(apps, j, u) # {}
       THEN /\ \E existing \in AppsOf(apps, j, u) :
                  lastResp' = Resp("request_job", j, u, 400, apps[existing].status)
            /\ UNCHANGED <<apps, nextApp>>
       ELSE /\ nextApp <= MaxApps
            /\ apps' = [apps EXCEPT ![nextApp] =
                          AppRow(j, u, "requested", NULL, NoDoc, NoDoc)]
            /\ nextApp' = nextApp + 1
            /\ lastResp' = Resp("request_job", j, u, 200, "")
    /\ UNCHANGED <<calls, retry, jobs, nextJob, resumes, exts, nextExt, queue>>

PendingRequestsAnyStatus(j, u) == AppsOf(apps, j, u)

\* the rows the filter of approve_request and reject_request selects
PendingRequests(j, u) ==
    { a \in AppsOf(apps, j, u) : apps[a].status = "requested" }

\* POST /jobs/{job_id}/approve/{user_id}
approve_request(j, u) ==
    /\ IF PendingRequests(j, u) = {}
       THEN /\ lastResp' = Resp("approve_request", j, u, 404, "")
            /\ UNCHANGED apps
       ELSE IF j \notin jobs
       THEN /\ lastResp' = Resp("approve_request", j, u, 404, "")
            /\ UNCHANGED apps
       ELSE IF ~HasText(u)
       THEN /\ lastResp' = Resp("approve_request", j, u, 400, "")
            /\ UNCHANGED apps
       ELSE \E application \in PendingRequests(j, u), p \in Pipelines :
              /\ apps' = [apps EXCEPT ![application] =
                    IF p.raised
                    THEN [@ EXCEPT !.status = "approved",
                                   !.final_score = 50,
                                   !.analysis_candidate = EmptyDoc,
                                   !.analysis_interviewer = EmptyDoc]
                    ELSE [@ EXCEPT !.status = "approved",
                                   !.final_score = p.final_score,
                                   !.analysis_candidate = p.candidate_analysis,
                                   !.analysis_interviewer = p.interviewer_analysis]]
              /\ lastResp' = Resp("approve_request", j, u, 200, "")
    /\ UNCHANGED <<calls, retry, jobs, nextJob, resumes, nextApp, exts, nextExt, queue>>

\* POST /jobs/{job_id}/reject/{user_id}
reject_request(j, u) ==
    /\ IF PendingRequests(j, u) = {}
       THEN /\ lastResp' = Resp("reject_request", j, u, 404, "")
            /\ UNCHANGED apps
       ELSE \E application \in PendingRequests(j, u) :
              /\ apps' = [apps EXCEPT ![application].status = "rejected"]
              /\ lastResp' = Resp("reject_request", j, u, 200, "")
    /\ UNCHANGED <<calls, retry, jobs, nextJob, resumes, nextApp, exts, nextExt, queue>>

\* POST /jobs/{job_id}/add-candidate/{user_id}
add_candidate_to_job(j, u) ==
    /\ IF j \notin jobs
       THEN /\ lastResp' = Resp("add_candidate_to_job", j, u, 404, "")
            /\ UNCHANGED <<apps, nextApp>>
       ELSE IF ~HasText(u)
       THEN /\ lastResp' = Resp("add_candidate_to_job", j, u, 400, "")
            /\ UNCHANGED <<apps, nextApp>>
       ELSE IF AppsOf(apps, j, u) # {}
       THEN /\ \E existing \in AppsOf(apps, j, u) :
                  lastResp' = Resp("add_candidate_to_job", j, u, 400,
                                   apps[existing].status)
            /\ UNCHANGED <<apps, nextApp>>
       ELSE /\ nextApp <= MaxApps
            /\ \E p \in Pipelines :
                  apps' = [apps EXCEPT ![nextApp] =
                     IF p.raised
                     THEN AppRow(j, u, "approved", 50, EmptyDoc, EmptyDoc)
                     ELSE AppRow(j, u, "approved", p.final_score,
                                 p.candidate_analysis, p.interviewer_analysis)]
            /\ nextApp' = nextApp + 1
            /\ lastResp' = Resp("add_candidate_to_job", j, u, 200, "")
    /\ UNCHANGED <<calls, retry, jobs, nextJob, resumes, exts, nextExt, queue>>

\* request bodies: lists of user ids (a user may be listed twice)
Payloads == UNION { [1..n -> Users] : n \in 0..MaxPayload }

\* ------------------------------------------------------------------------
\* admin_router
\* ------------------------------------------------------------------------
\* the loop of attach_candidates over user_ids; rows added to the session
\* are flushed before the next query, so the query sees them
RECURSIVE AttachCandidatesLoop(_, _, _, _, _)
AttachCandidatesLoop(user_ids, i, j, as, nxt) ==
    IF i > Len(user_ids) THEN [apps |-> as, next |-> nxt, overflow |-> FALSE]
    ELSE IF AppsOf(as, j, user_ids[i]) # {}
    THEN AttachCandidatesLoop(user_ids, i + 1, j, as, nxt)
    ELSE IF nxt > MaxApps
    THEN [apps |-> as, next |-> nxt, overflow |-> TRUE]
    ELSE AttachCandidatesLoop(user_ids, i + 1, j,
            [as EXCEPT ![nxt] = AppRow(j, user_ids[i], "approved", NULL,
                                       NoDoc, NoDoc)],
            nxt + 1)

\* POST /admin/jobs/{job_id}/attach-candidates: no check of the job or of
\* the resume; a row for a job that does not exist violates the foreign
\* key at commit and the request fails with nothing stored
attach_candidates(j, user_ids) ==
    /\ LET r == AttachCandidatesLoop(user_ids, 1, j, apps, nextApp) IN
         /\ ~r.overflow
         /\ IF j \notin jobs /\ r.next # nextApp
            THEN /\ lastResp' = Resp("attach_candidates", j, 0, 500, "")
                 /\ UNCHANGED <<apps, nextApp>>
            ELSE /\ apps' = r.apps
                 /\ nextApp' = r.next
                 /\ lastResp' = Resp("attach_candidates", j, 0, 200, "")
    /\ UNCHANGED <<calls, retry, jobs, nextJob, resumes, exts, nextExt, queue>>

\* ------------------------------------------------------------------------
\* job_router, continued
\* ------------------------------------------------------------------------
\* the first loop of attach_internal: rows in status processing, and the
\* users queued
RECURSIVE AttachInternalLoop(_, _, _, _, _, _)
AttachInternalLoop(user_ids, i, j, as, nxt, queued_users) ==
    IF i > Len(user_ids)
    THEN [apps |-> as, next |-> nxt, queued_users |-> queued_users,
          overflow |-> FALSE]
    ELSE IF ~HasText(user_ids[i])
    THEN AttachInternalLoop(user_ids, i + 1, j, as, nxt, queued_users)
    ELSE IF AppsOf(as, j, user_ids[i]) # {}
    THEN AttachInternalLoop(user_ids, i + 1, j, as, nxt, queued_users)
    ELSE IF nxt > MaxApps
    THEN [apps |-> as, next |-> nxt, queued_users |-> queued_users,
          overflow |-> TRUE]
    ELSE AttachInternalLoop(user_ids, i + 1, j,
            [as EXCEPT ![nxt] = AppRow(j, user_ids[i], "processing", NULL,
                                       NoDoc, NoDoc)],
            nxt + 1, Append(queued_users, user_ids[i]))

\* the second loop: process_internal_resume.delay(job_id, uid)
RECURSIVE Enqueue(_, _, _, _)
Enqueue(q, j, queued_users, i) ==
    IF i > Len(queued_users) THEN q
    ELSE Enqueue([q EXCEPT ![<<j, queued_users[i]>>] = @ + 1], j,
                 queued_users, i + 1)

\* POST /jobs/{job_id}/attach-internal
attach_internal(j, user_ids) ==
    /\ IF j \notin jobs
       THEN /\ lastResp' = Resp("attach_internal", j, 0, 404, "")
            /\ UNCHANGED <<apps, nextApp, queue>>
       ELSE LET r == AttachInternalLoop(user_ids, 1, j, apps, nextApp, <<>>)
                q == Enqueue(queue, j, r.queued_users, 1)
            IN  /\ ~r.overflow
                /\ \A t \in JobIds \X Users : q[t] <= MaxPending
                /\ apps' = r.apps
                /\ nextApp' = r.next
                /\ queue' = q
                /\ lastResp' = Resp("attach_internal", j, 0, 200, "")
    /\ UNCHANGED <<calls, retry, jobs, nextJob, resumes, exts, nextExt>>

\* one entry of the results list of a bulk upload
Result(name, score, error) ==
    [candidate_name |-> name, score |-> score, error |-> error]

\* `x.get("score") or 0`
SortKey(r) == IF r.score = NULL THEN 0 ELSE r.score

\* results.sort(key=..., reverse=True): stable, descending
RECURSIVE InsertSorted(_, _)
InsertSorted(sorted, r) ==
    IF sorted = <<>> THEN <<r>>
    ELSE IF SortKey(sorted[Len(sorted)]) >= SortKey(r)
    THEN Append(sorted, r)
    ELSE Append(InsertSorted(SubSeq(sorted, 1, Len(sorted) - 1), r),
                sorted[Len(sorted)])

RECURSIVE SortResults(_, _)
SortResults(results, i) ==
    IF i = 0 THEN <<>>
    ELSE InsertSorted(SortResults(results, i - 1), results[i])

\* valid = [r for r in results if r.get("score") is not None]
Valid(results) == SelectSeq(results, LAMBDA r : r.score # NULL)

ShortlistCountRoundedUp(valid) ==
    IF valid # <<>> THEN Max2(1, (Len(valid) + 4) \div 5) ELSE 0

\* max(1, int(len(valid) * 0.2)) if valid else 0; the float product
\* n * 0.2 truncates to n \div 5 for every n a batch can have
ShortlistCount(valid) ==
    IF valid # <<>> THEN Max2(1, Len(valid) \div 5) ELSE 0

\* the names of valid[:shortlist_count]
TopNames(results) ==
    LET valid == Valid(SortResults(results, Len(results)))
        shortlist_count == ShortlistCount(valid)
    IN  { valid[i].candidate_name : i \in 1..shortlist_count }

\* the body of the 200 response of a bulk upload
BulkResponse(op, j, results) ==
    LET sorted == SortResults(results, Len(results))
        valid == Valid(sorted)
    IN  [op |-> op, job_id |-> j, user_id |-> 0, code |-> 200, status |-> "",
         total_processed |-> Len(valid),
         shortlisted_count |-> ShortlistCount(valid),
         ranked_candidates |-> sorted]

\* both generate_* functions used up their calls and returned the fallback
AnalysisFailed(p) ==
    /\ p.candidate_analysis.src = "fallback"
    /\ p.interviewer_analysis.src = "fallback"

\* a bulk request next to its response: the files of the request body, and
\* the files for which the external model failed on every call
Exchange(files, ps, response) ==
    [files |-> files,
     model_failed |-> { i \in 1..Len(files) :
                          files[i].read = "text" /\ AnalysisFailed(ps[i]) }]
    @@ response

\* the UPDATE ... WHERE job_id = :job AND name IN :top_names
Shortlist(es, j, top_names) ==
    [c \in ExtIds |->
        IF es[c].status # "none" /\ es[c].job_id = j
           /\ es[c].name \in top_names
        THEN [es[c] EXCEPT !.status = "shortlisted"]
        ELSE es[c]]

\* The loop over the files of a bulk upload.  A file is its display name
\* and what reading it gives: "text", "empty" (no extractable text),
\* "missing" (vault path not on disk) or "outside" (vault path outside the
\* vault directory).  ps[i] is the outcome of the AI pipeline for file i.
RECURSIVE BulkLoop(_, _, _, _, _, _, _)
BulkLoop(files, ps, i, j, es, nxt, results) ==
    IF i > Len(files)
    THEN [exts |-> es, next |-> nxt, results |-> results, overflow |-> FALSE]
    ELSE IF files[i].read = "outside"
    THEN BulkLoop(files, ps, i + 1, j, es, nxt, results)
    ELSE IF files[i].read = "missing"
    THEN BulkLoop(files, ps, i + 1, j, es, nxt,
                  Append(results, Result(files[i].name, NULL, "File not found")))
    ELSE IF files[i].read = "empty"
    THEN BulkLoop(files, ps, i + 1, j, es, nxt, results)
    ELSE IF ps[i].raised
    THEN BulkLoop(files, ps, i + 1, j, es, nxt,
                  Append(results, Result(files[i].name, NULL, "error")))
    ELSE IF nxt > MaxExts
    THEN [exts |-> es, next |-> nxt, results |-> results, overflow |-> TRUE]
    ELSE BulkLoop(files, ps, i + 1, j,
            [es EXCEPT ![nxt] =
                ExtRow(j, files[i].name, "text", "analyzed", ps[i].final_score,
                       ps[i].candidate_analysis, ps[i].interviewer_analysis)],
            nxt + 1,
            Append(results, Result(files[i].name, ps[i].final_score, "")))

Batches(reads) ==
    UNION { [1..n -> [name : Names, read : reads]] : n \in 1..MaxFiles }

\* the outcomes of the AI pipeline for the files of a batch; the pipeline
\* runs for the files with text only, and NotRun stands for the others
NotRun == CHOOSE p \in Pipelines : TRUE

PipelineRuns(files) ==
    { ps \in [1..Len(files) -> Pipelines] :
        \A i \in 1..Len(files) : files[i].read # "text" => ps[i] = NotRun }

Bulk(op, j, files) ==
    /\ IF j \notin jobs
       THEN /\ lastResp' = Resp(op, j, 0, 404, "")
            /\ UNCHANGED <<exts, nextExt>>
       ELSE \E ps \in PipelineRuns(files) :
              LET r == BulkLoop(files, ps, 1, j, exts, nextExt, <<>>) IN
                /\ ~r.overflow
                /\ exts' = Shortlist(r.exts, j, TopNames(r.results))
                /\ nextExt' = r.next
                /\ lastResp' = Exchange(files, ps,
                                         BulkResponse(op, j, r.results))
    /\ UNCHANGED <<calls, retry, jobs, nextJob, resumes, apps, nextApp, queue>>

\* POST /jobs/{job_id}/upload-cvs
upload_multiple_cvs(j, files) == Bulk("upload_multiple_cvs", j, files)

\* POST /jobs/{job_id}/attach-vault-files
attach_vault_files(j, files) == Bulk("attach_vault_files", j, files)

\* ------------------------------------------------------------------------
\* tasks
\* ------------------------------------------------------------------------
InternalItemMissingNoAppCheck(j, u) == j \notin jobs \/ ~HasText(u)

\* the early returns of process_internal_resume: no application, no job,
\* no resume or no parsed_text
InternalItemMissing(j, u) ==
    AppsOf(apps, j, u) = {} \/ j \notin jobs \/ ~HasText(u)

TaskResultStatusOnly(row, p) == [row EXCEPT !.status = "analyzed"]

\* the four assignments of a task to its row, committed together
TaskResult(row, p) ==
    [row EXCEPT !.analysis_candidate = p.candidate_analysis,
                !.analysis_interviewer = p.interviewer_analysis,
                !.final_score = p.final_score,
                !.status = "analyzed"]

\* a worker takes one process_internal_resume message and runs the task;
\* an exception (also the AttributeError of writing to a row that is None)
\* rolls back and leaves the task
process_internal_resume(j, u) ==
    /\ queue[<<j, u>>] > 0
    /\ queue' = [queue EXCEPT ![<<j, u>>] = @ - 1]
    /\ IF InternalItemMissing(j, u)
       THEN /\ lastResp' = TaskRun("process_internal_resume", j, u, "dropped")
            /\ UNCHANGED apps
       ELSE IF AppsOf(apps, j, u) = {}
       THEN /\ lastResp' = TaskRun("process_internal_resume", j, u, "raised")
            /\ UNCHANGED apps
       ELSE \E app \in AppsOf(apps, j, u), p \in Pipelines :
              IF p.raised
              THEN /\ lastResp' =
                         TaskRun("process_internal_resume", j, u, "raised")
                   /\ UNCHANGED apps
              ELSE /\ apps' = [apps EXCEPT ![app] = TaskResult(@, p)]
                   /\ lastResp' =
                         TaskRun("process_internal_resume", j, u, "committed")
    /\ UNCHANGED <<calls, retry, jobs, nextJob, resumes, nextApp, exts, nextExt>>

\* the early returns of process_external_resume: no candidate, no job or
\* no raw_resume_text
ExternalItemMissing(candidate_id) ==
    \/ exts[candidate_id].status = "none"
    \/ exts[candidate_id].job_id \notin jobs
    \/ exts[candidate_id].raw_resume_text = ""

\* a worker runs process_external_resume(candidate_id); the message comes
\* from outside the repository
process_external_resume(candidate_id) ==
    /\ IF ExternalItemMissing(candidate_id)
       THEN /\ lastResp' = TaskRun("process_external_resume", 0, candidate_id,
                                   "dropped")
            /\ UNCHANGED exts
       ELSE \E p \in Pipelines :
              IF p.raised
              THEN /\ lastResp' = TaskRun("process_external_resume", 0,
                                          candidate_id, "raised")
                   /\ UNCHANGED exts
              ELSE /\ exts' = [exts EXCEPT ![candidate_id] = TaskResult(@, p)]
                   /\ lastResp' = TaskRun("process_external_resume", 0,
                                          candidate_id, "committed")
    /\ UNCHANGED <<calls, retry, jobs, nextJob, resumes, apps, nextApp, nextExt,
                   queue>>

\* ------------------------------------------------------------------------
\* The specification of the service
\* ------------------------------------------------------------------------
\* the requests and tasks that read or write job_applications
InternalNext ==
    \/ upload_jd
    \/ \E j \in JobIds : delete_job(j)
    \/ \E u \in Users : upload_profile_resume(u)
    \/ \E j \in JobIds, u \in Users : request_job(j, u)
    \/ \E j \in JobIds, u \in Users : approve_request(j, u)
    \/ \E j \in JobIds, u \in Users : reject_request(j, u)
    \/ \E j \in JobIds, u \in Users : add_candidate_to_job(j, u)
    \/ \E j \in JobIds, user_ids \in Payloads : attach_candidates(j, user_ids)
    \/ \E j \in JobIds, user_ids \in Payloads : attach_internal(j, user_ids)
    \/ \E a \in AppIds : delete_internal_candidate(a)
    \/ \E j \in JobIds, u \in Users : process_internal_resume(j, u)

\* the requests and tasks that read or write external_candidates
ExternalNext ==
    \/ upload_jd
    \/ \E j \in JobIds : delete_job(j)
    \/ \E j \in JobIds, files \in Batches({"text", "empty"}) :
          upload_multiple_cvs(j, files)
    \/ \E j \in JobIds,
          files \in Batches({"text", "empty", "missing", "outside"}) :
          attach_vault_files(j, files)
    \/ \E c \in ExtIds : delete_external_candidate(c)
    \/ \E c \in ExtIds : process_external_resume(c)

Next == InternalNext \/ ExternalNext

Spec == Init /\ [][Next]_vars

\* The two tables share nothing but the jobs: the internal applications
\* and the external candidates on their own.
InternalSpec == Init /\ [][InternalNext]_vars

ExternalSpec == Init /\ [][ExternalNext]_vars

\* workers keep taking messages off the queue
InternalFairSpec ==
    /\ InternalSpec
    /\ \A j \in JobIds, u \in Users : WF_vars(process_internal_resume(j, u))

\* ------------------------------------------------------------------------
\* The generate_* functions on their own: one invocation against every
\* sequence of answers of the external model
\* ------------------------------------------------------------------------
Invocation(schema, run) ==
    [schema |-> schema, run |-> run, pc |-> "called",
     out |-> [doc |-> NoDoc, calls |-> 0, raised |-> FALSE],
     final_score |-> NULL]

RetryInit ==
    /\ DbInit
    /\ retry \in UNION { { Invocation(s, r) : r \in ModelRuns(s) } :
                         s \in Schemas }

Generate(schema) ==
    /\ retry.pc = "called"
    /\ retry.schema = schema
    /\ LET out == parse_with_retry(retry.run, Fallback(schema)) IN
         retry' = [retry EXCEPT !.out = out,
                                !.pc = IF out.raised THEN "raised"
                                       ELSE "returned"]
    /\ UNCHANGED <<calls, dbvars, lastResp>>

generate_jd_summary == Generate("jd_summary")
generate_resume_profile_analysis == Generate("profile")
generate_candidate_analysis == Generate("candidate")
generate_interviewer_analysis == Generate("interviewer")

RetryNext ==
    \/ generate_jd_summary
    \/ generate_resume_profile_analysis
    \/ generate_candidate_analysis
    \/ generate_interviewer_analysis

RetrySpec == RetryInit /\ [][RetryNext]_vars

\* ------------------------------------------------------------------------
\* The scoring of an interviewer view, as in the tasks and the handlers:
\* generate_interviewer_analysis, then calculate_final_score on what it
\* returned.  The external model answers with any document of ScoreDocs.
\* ------------------------------------------------------------------------
Sections == {"preliminary_assessment", "resume_analysis", "job_requirements"}

\* 0.3, 0.8 and 1.0 on the scale of 0 to 1; 2.0, and 8.0 on the scale of
\* 0 to 10 the schema's description asks for; -0.5
TechValues == {Absent, NonNum, -50, 0, 30, 80, 100, 200, 800}

ExpValues == {Absent, NonNum, -50, 0, 60, 100, 600}

\* 0.8, 8, 10 and 15 where the scale is 0 to 10; -1; 75 as the percentage
\* the schema's description asks for
KeywordValues == {Absent, NonNum, -100, 0, 80, 800, 1000, 1500, 7500}

\* candidate_proficiency of each entry of must_have_skills
SkillLists ==
    { <<>>, <<100>>, <<0, 100>>, <<Absent>>, <<NonNum, 100>>, <<150>>,
      <<-20, 40>> }

ScoreDocs ==
    \* numbers, non-numbers and absent keys, with or without a section
    { Doc("interviewer", "model", missing, tech, exp, kw, skills) :
        missing \in { {} } \cup { {sec} : sec \in Sections } \cup { Sections },
        tech \in TechValues, exp \in ExpValues, kw \in KeywordValues,
        skills \in SkillLists }
    \* a section, or an entry of must_have_skills, that is no mapping
    \cup { Doc("interviewer", "model", missing, NotMapping, NotMapping, kw,
                skills) :
             missing \in { {}, {"preliminary_assessment"} },
             kw \in {Absent, 800}, skills \in { <<>>, <<100>> } }
    \cup { Doc("interviewer", "model", missing, tech, 60, NotMapping, <<>>) :
             missing \in { {}, {"resume_analysis"} }, tech \in {Absent, 80} }
    \cup { Doc("interviewer", "model", missing, 80, 60, 800, skills) :
             missing \in { {}, {"job_requirements"} },
             skills \in { <<NotMapping>>, <<100, NotMapping>> } }
    \* JSON that is no object at all
    \cup { NotMappingDoc }

\* the first answer is the JSON text of the document
ScoreRun(doc) ==
    [i \in 1..MAX_RETRIES |->
        IF i = 1 THEN [kind |-> "json", doc |-> doc]
        ELSE [kind |-> "error", doc |-> NoDoc]]

\* every answer is a transport error: the fallback is what gets scored
FailedRun == [i \in 1..MAX_RETRIES |-> [kind |-> "error", doc |-> NoDoc]]

ScoreInit ==
    /\ DbInit
    /\ retry \in { Invocation("interviewer", ScoreRun(d)) : d \in ScoreDocs }
                 \cup { Invocation("interviewer", FailedRun) }

\* final_score = calculate_final_score(interviewer_analysis)
ScoreAnalysis ==
    /\ retry.pc = "returned"
    /\ retry.schema = "interviewer"
    /\ LET o == ScoreOutcome(retry.out.doc) IN
         retry' = [retry EXCEPT !.final_score = o.value,
                                !.pc = IF o.raised THEN "score_raised"
                                       ELSE "scored"]
    /\ UNCHANGED <<calls, dbvars, lastResp>>

ScoreNext ==
    \/ generate_interviewer_analysis
    \/ ScoreAnalysis

ScoreSpec == ScoreInit /\ [][ScoreNext]_vars

\* ------------------------------------------------------------------------
\* The ranking step of a bulk upload on its own: the handler has left its
\* loop over the files with a results list, and sorts, counts and answers.
\* ------------------------------------------------------------------------
\* results lists of up to MaxResults entries, each a stored candidate with
\* a score or a failed file with a null score
ResultLists ==
    UNION { [1..n -> { Result("a", 50, ""), Result("a", NULL, "error") }] :
              n \in 0..MaxResults }

\* upload_multiple_cvs after its loop, holding results
AfterLoop(results) ==
    [op |-> "upload_multiple_cvs", job_id |-> 1, user_id |-> 0, code |-> 0,
     status |-> "ranking", ranked_candidates |-> results]

RankingInit ==
    /\ TablesInit
    /\ retry = RetryIdle
    /\ lastResp \in { AfterLoop(results) : results \in ResultLists }

\* results.sort(...); valid = ...; shortlist_count = ...; return {...}
RankBatch ==
    /\ lastResp.status = "ranking"
    /\ lastResp' = BulkResponse(lastResp.op, lastResp.job_id,
                                lastResp.ranked_candidates)
    /\ UNCHANGED <<calls, retry, dbvars>>

RankingNext == RankBatch

RankingSpec == RankingInit /\ [][RankingNext]_vars

\* ------------------------------------------------------------------------
\* The bulk uploads on their own, with batches of several files
\* ------------------------------------------------------------------------
LargeBatches(reads) ==
    UNION { [1..n -> [name : Names, read : reads]] : n \in 1..MaxBatch }

BatchNext ==
    \/ upload_jd
    \/ \E j \in JobIds, files \in LargeBatches({"text", "empty"}) :
          upload_multiple_cvs(j, files)
    \/ \E j \in JobIds, files \in LargeBatches({"text", "missing"}) :
          attach_vault_files(j, files)

BatchSpec == Init /\ [][BatchNext]_vars

\* ------------------------------------------------------------------------
\* Requests and task runs that overlap.  attach_internal, approve_request
\* and reject_request are `def` endpoints, which FastAPI runs on a thread
\* pool, and Celery runs the tasks in worker processes: each is a sequence
\* of database statements and model calls, and the statements of different
\* calls interleave.  A statement sees what has been committed; an ORM
\* UPDATE is by primary key and does not look at the status again.
\* ------------------------------------------------------------------------
Range(seq) == { seq[k] : k \in 1..Len(seq) }

\* a slot for a new request or task run: the first one that is not running
Idle(c) == calls[c].pc \in {"idle", "done"}

Free(c) == Idle(c) /\ \A d \in CallIds : d < c => ~Idle(d)

Started(op, j, user_ids) ==
    [NoCall EXCEPT !.op = op, !.job_id = j, !.user_ids = user_ids]

\* the call has ended: its response code or task outcome, and the
\* notification its commit stored; the session is closed
Finished(call, code, outcome, notified) ==
    [NoCall EXCEPT !.op = call.op, !.pc = "done", !.job_id = call.job_id,
                   !.app = call.app, !.answered = call.answered,
                   !.code = code, !.outcome = outcome,
                   !.notified = notified]

AttachAfterEnqueueFirst(pc) ==
    CASE pc = "loop" -> "enqueue"
      [] pc = "enqueue" -> "commit"
      [] pc = "commit" -> "done"

\* attach_internal: the loop over user_ids, then db.commit(), then the
\* loop of process_internal_resume.delay
AttachAfter(pc) ==
    CASE pc = "loop" -> "commit"
      [] pc = "commit" -> "enqueue"
      [] pc = "enqueue" -> "done"

AttachAdvance(call, pc) ==
    IF AttachAfter(pc) = "done" THEN Finished(call, 200, "", "")
    ELSE [call EXCEPT !.pc = AttachAfter(pc)]

\* POST /jobs/{job_id}/attach-internal arrives: the job is looked up
AttachBegin(c, j, user_ids) ==
    /\ Free(c)
    /\ calls' = [calls EXCEPT ![c] =
          IF j \notin jobs
          THEN Finished(Started("attach_internal", j, user_ids), 404, "", "")
          ELSE IF user_ids = <<>>
          THEN AttachAdvance(Started("attach_internal", j, user_ids), "loop")
          ELSE [Started("attach_internal", j, user_ids) EXCEPT
                   !.pc = "loop"]]
    /\ UNCHANGED <<retry, dbvars, lastResp>>

\* one iteration of the loop (user_ids holds what the loop has yet to
\* visit): the resume and the application are queried (the query sees the
\* committed rows and the rows this session has added) and the row is added
\* to the session
AttachIter(c) ==
    /\ calls[c].op = "attach_internal"
    /\ calls[c].pc = "loop"
    /\ LET call == calls[c]
           uid == Head(call.user_ids)
           exists == \/ AppsOf(apps, call.job_id, uid) # {}
                     \/ uid \in Range(call.queued_users)
           added == [call EXCEPT
                       !.user_ids = Tail(@),
                       !.queued_users = IF ~HasText(uid) \/ exists THEN @
                                        ELSE Append(@, uid)]
       IN  calls' = [calls EXCEPT ![c] =
              IF Len(call.user_ids) = 1
              THEN AttachAdvance(added, "loop") ELSE added]
    /\ UNCHANGED <<retry, dbvars, lastResp>>

\* db.commit(): the rows are inserted; the foreign key fails the commit
\* when the job has been deleted meanwhile
AttachCommit(c) ==
    /\ calls[c].op = "attach_internal"
    /\ calls[c].pc = "commit"
    /\ LET call == calls[c]
           n == Len(call.queued_users)
       IN  /\ nextApp + n - 1 <= MaxApps
           /\ IF n > 0 /\ call.job_id \notin jobs
              THEN /\ calls' = [calls EXCEPT ![c] =
                                   Finished(call, 500, "", "")]
                   /\ UNCHANGED <<apps, nextApp>>
              ELSE /\ apps' = [a \in AppIds |->
                        IF a \in nextApp..(nextApp + n - 1)
                        THEN AppRow(call.job_id,
                                    call.queued_users[a - nextApp + 1],
                                    "processing", NULL, NoDoc, NoDoc)
                        ELSE apps[a]]
                   /\ nextApp' = nextApp + n
                   /\ calls' = [calls EXCEPT ![c] =
                         AttachAdvance(
                            [call EXCEPT !.inserted =
                                [k \in 1..n |-> nextApp + k - 1]],
                            "commit")]
    /\ UNCHANGED <<retry, jobs, nextJob, resumes, exts, nextExt, queue,
                   lastResp>>

\* the loop of process_internal_resume.delay(job_id, uid)
AttachEnqueue(c) ==
    /\ calls[c].op = "attach_internal"
    /\ calls[c].pc = "enqueue"
    /\ LET call == calls[c]
           q == Enqueue(queue, call.job_id, call.queued_users, 1)
       IN  /\ \A t \in JobIds \X Users : q[t] <= MaxPending
           /\ queue' = q
           /\ calls' = [calls EXCEPT ![c] = AttachAdvance(call, "enqueue")]
    /\ UNCHANGED <<retry, jobs, nextJob, resumes, apps, nextApp, exts,
                   nextExt, lastResp>>

\* POST /jobs/{job_id}/approve/{user_id} arrives: the three queries
ApproveBegin(c, j, u) ==
    /\ Free(c)
    /\ LET call == Started("approve_request", j, <<u>>) IN
         IF PendingRequests(j, u) = {} \/ j \notin jobs
         THEN calls' = [calls EXCEPT ![c] = Finished(call, 404, "", "")]
         ELSE IF ~HasText(u)
         THEN calls' = [calls EXCEPT ![c] = Finished(call, 400, "", "")]
         ELSE \E application \in PendingRequests(j, u) :
                calls' = [calls EXCEPT ![c] =
                   [call EXCEPT !.pc = "candidate", !.app = application]]
    /\ UNCHANGED <<retry, dbvars, lastResp>>

\* POST /jobs/{job_id}/reject/{user_id} arrives: the query
RejectBegin(c, j, u) ==
    /\ Free(c)
    /\ LET call == Started("reject_request", j, <<u>>) IN
         IF PendingRequests(j, u) = {}
         THEN calls' = [calls EXCEPT ![c] = Finished(call, 404, "", "")]
         ELSE \E application \in PendingRequests(j, u) :
                calls' = [calls EXCEPT ![c] =
                   [call EXCEPT !.pc = "commit", !.app = application]]
    /\ UNCHANGED <<retry, dbvars, lastResp>>

\* a worker takes a process_internal_resume message (acknowledged when it
\* is taken: the Celery default) and the task runs its three queries
TaskBegin(c, j, u) ==
    /\ Free(c)
    /\ queue[<<j, u>>] > 0
    /\ queue' = [queue EXCEPT ![<<j, u>>] = @ - 1]
    /\ LET call == Started("process_internal_resume", j, <<u>>) IN
         IF AppsOf(apps, j, u) = {}
         THEN calls' = [calls EXCEPT ![c] = Finished(call, 0, "dropped", "")]
         ELSE \E application \in AppsOf(apps, j, u) :
                calls' = [calls EXCEPT ![c] =
                   IF InternalItemMissing(j, u)
                   THEN Finished([call EXCEPT !.app = application], 0,
                                 "dropped", "")
                   ELSE [call EXCEPT !.pc = "candidate",
                                     !.app = application]]
    /\ UNCHANGED <<retry, jobs, nextJob, resumes, apps, nextApp, exts,
                   nextExt, lastResp>>

AnalysisRaisesOnFallback(out) == out.raised \/ out.doc.src = "fallback"

\* whether a generate_* call ends the analysis with an exception: only when
\* it raises; what it returns is not inspected
AnalysisRaises(out) == out.raised

\* when the analysis raises: the task rolls back and raises, approve_request
\* goes on with {} and 0.5
AnalysisRaised(call) ==
    IF call.op = "process_internal_resume"
    THEN Finished(call, 0, "raised", "")
    ELSE [call EXCEPT !.pc = "commit", !.candidate_analysis = EmptyDoc,
                      !.interviewer_analysis = EmptyDoc, !.final_score = 50]

\* some call of the run was answered with JSON text
Answered(run) == \E k \in 1..MAX_RETRIES : run[k].kind = "json"

\* what one generate_* call can return, with whether the model answered
Analyses(schema) ==
    { [out |-> parse_with_retry(run, Fallback(schema)),
       answered |-> Answered(run)] : run \in ModelRuns(schema) }

CandidateAnalyses == Analyses("candidate")

InterviewerAnalyses == Analyses("interviewer")

\* generate_candidate_analysis(job.raw_text, resume text)
CandidateAnalysis(c) ==
    /\ calls[c].pc = "candidate"
    /\ \E analysis \in CandidateAnalyses :
         LET out == analysis.out
             call == [calls[c] EXCEPT !.answered = @ \/ analysis.answered]
         IN  calls' = [calls EXCEPT ![c] =
                IF AnalysisRaises(out) THEN AnalysisRaised(call)
                ELSE [call EXCEPT !.pc = "interviewer",
                                  !.candidate_analysis = out.doc]]
    /\ UNCHANGED <<retry, dbvars, lastResp>>

\* generate_interviewer_analysis(...), then calculate_final_score
InterviewerAnalysis(c) ==
    /\ calls[c].pc = "interviewer"
    /\ \E analysis \in InterviewerAnalyses :
         LET out == analysis.out
             call == [calls[c] EXCEPT !.answered = @ \/ analysis.answered]
         IN  calls' = [calls EXCEPT ![c] =
                IF AnalysisRaises(out) \/ ScoreOutcome(out.doc).raised
                THEN AnalysisRaised(call)
                ELSE [call EXCEPT
                        !.pc = "commit",
                        !.interviewer_analysis = out.doc,
                        !.final_score = calculate_final_score(out.doc)]]
    /\ UNCHANGED <<retry, dbvars, lastResp>>

\* db.commit() of approve_request and reject_request: the UPDATE of the
\* loaded application and the INSERT of the notification; the UPDATE of a
\* row that has been deleted meanwhile fails the request
RequestCommit(c) ==
    /\ calls[c].op \in {"approve_request", "reject_request"}
    /\ calls[c].pc = "commit"
    /\ LET call == calls[c] IN
         IF apps[call.app].status = "none"
         THEN /\ calls' = [calls EXCEPT ![c] = Finished(call, 500, "", "")]
              /\ UNCHANGED apps
         ELSE IF call.op = "approve_request"
         THEN /\ apps' = [apps EXCEPT ![call.app] =
                    [@ EXCEPT !.status = "approved",
                              !.final_score = call.final_score,
                              !.analysis_candidate = call.candidate_analysis,
                              !.analysis_interviewer =
                                  call.interviewer_analysis]]
              /\ calls' = [calls EXCEPT ![c] =
                              Finished(call, 200, "", "approved")]
         ELSE /\ apps' = [apps EXCEPT ![call.app].status = "rejected"]
              /\ calls' = [calls EXCEPT ![c] =
                              Finished(call, 200, "", "rejected")]
    /\ UNCHANGED <<retry, jobs, nextJob, resumes, nextApp, exts, nextExt,
                   queue, lastResp>>

\* db.commit() of process_internal_resume.  The commit may fail (the
\* database is unreachable, or the row has been deleted meanwhile): the
\* task rolls back and raises.  Neither the task nor the Celery
\* configuration asks for a retry or a late acknowledgement, so the
\* message is not delivered again.
TaskCommit(c) ==
    /\ calls[c].op = "process_internal_resume"
    /\ calls[c].pc = "commit"
    /\ LET call == calls[c] IN
         \E commit_ok \in BOOLEAN :
            IF commit_ok /\ apps[call.app].status # "none"
            THEN /\ apps' = [apps EXCEPT ![call.app] = TaskResult(@, call)]
                 /\ calls' = [calls EXCEPT ![c] =
                                 Finished(call, 0, "committed", "")]
            ELSE /\ calls' = [calls EXCEPT ![c] =
                                 Finished(call, 0, "commit_failed", "")]
                 /\ UNCHANGED apps
    /\ UNCHANGED <<retry, jobs, nextJob, resumes, nextApp, exts, nextExt,
                   queue, lastResp>>

\* attach_internal calls that overlap, the administrator and the worker
AttachNext ==
    \/ upload_jd
    \/ \E u \in Users : upload_profile_resume(u)
    \/ \E a \in AppIds : delete_internal_candidate(a)
    \/ \E c \in CallIds, j \in JobIds, user_ids \in Payloads :
          AttachBegin(c, j, user_ids)
    \/ \E c \in CallIds : AttachIter(c)
    \/ \E c \in CallIds : AttachCommit(c)
    \/ \E c \in CallIds : AttachEnqueue(c)
    \/ \E j \in JobIds, u \in Users : process_internal_resume(j, u)

AttachSpec == Init /\ [][AttachNext]_vars

\* the runs of process_internal_resume, statement by statement
TaskNext ==
    \/ upload_jd
    \/ \E u \in Users : upload_profile_resume(u)
    \/ \E j \in JobIds, user_ids \in Payloads : attach_internal(j, user_ids)
    \/ \E a \in AppIds : delete_internal_candidate(a)
    \/ \E c \in CallIds, j \in JobIds, u \in Users : TaskBegin(c, j, u)
    \/ \E c \in CallIds : CandidateAnalysis(c)
    \/ \E c \in CallIds : InterviewerAnalysis(c)
    \/ \E c \in CallIds : TaskCommit(c)

TaskSpec == Init /\ [][TaskNext]_vars

\* approve_request and reject_request calls that overlap
RequestNext ==
    \/ upload_jd
    \/ \E u \in Users : upload_profile_resume(u)
    \/ \E j \in JobIds, u \in Users : request_job(j, u)
    \/ \E c \in CallIds, j \in JobIds, u \in Users : ApproveBegin(c, j, u)
    \/ \E c \in CallIds, j \in JobIds, u \in Users : RejectBegin(c, j, u)
    \/ \E c \in CallIds : CandidateAnalysis(c)
    \/ \E c \in CallIds : InterviewerAnalysis(c)
    \/ \E c \in CallIds : RequestCommit(c)

RequestSpec == Init /\ [][RequestNext]_vars

\* ------------------------------------------------------------------------
\* Properties
\* ------------------------------------------------------------------------
AllRuns(kind) == \A i \in 1..MAX_RETRIES : retry.run[i].kind = kind

\* C1: a generate_* function never raises to its caller: whatever the
\* external model answers (transport error, empty response, unparseable
\* text, JSON), the invocation returns, and what it returns is a document
\* the model sent or the fallback of its schema.
C1_NeverRaises ==
    /\ retry.pc # "raised"
    /\ retry.pc = "returned" =>
          /\ ~retry.out.raised
          /\ retry.out.doc \in
                ModelDocs(retry.schema) \cup {Fallback(retry.schema)}

\* an invocation that met a transport error, then an empty response, and
\* returned the JSON of the third answer
C1_Witness ==
    /\ retry.pc = "returned"
    /\ retry.run[1].kind = "error"
    /\ retry.run[2].kind = "empty"
    /\ retry.run[3].kind = "json"
    /\ retry.out.doc = retry.run[3].doc

\* C2: when every answer of the model is malformed JSON, the invocation
\* makes exactly 3 calls and then returns the fallback of its schema.
C2_MalformedThreeCalls ==
    (retry.pc # "called" /\ AllRuns("garbage")) =>
        /\ retry.pc = "returned"
        /\ retry.out.calls = 3
        /\ retry.out.doc = Fallback(retry.schema)

C2_Witness ==
    /\ retry.pc = "returned"
    /\ AllRuns("garbage")
    /\ retry.schema = "interviewer"
    /\ retry.out.calls = 3

\* C3: every document a generate_* function returns satisfies the
\* required-field set of its schema (an answer that is valid JSON but
\* lacks a required field is not returned).
C3_ReturnedSatisfiesRequired ==
    retry.pc = "returned" => SatisfiesRequired(retry.out.doc, retry.schema)

\* the record of a task that stored both fallback documents
BothFallbacks(row) ==
    /\ row.status = "analyzed"
    /\ row.analysis_candidate = Fallback("candidate")
    /\ row.analysis_interviewer = Fallback("interviewer")

\* C4: when both model calls of a work item exhaust their retries, the
\* final_score committed together with status analyzed is 0.5.
C4_FallbackScoreNeutral ==
    \A a \in AppIds : BothFallbacks(apps[a]) => apps[a].final_score = 50

\* C5: with workers that keep running, every internal application in
\* status approved or processing eventually reaches analyzed (a row deleted
\* meanwhile is not counted), and so does every external candidate in
\* status queued.
C5_EventuallyAnalyzed ==
    /\ \A a \in AppIds :
          (apps[a].status \in {"approved", "processing"})
             ~> (apps[a].status \in {"analyzed", "none"})
    /\ \A c \in ExtIds :
          (exts[c].status = "queued")
             ~> (exts[c].status \in {"analyzed", "none"})

\* C6: once an application is rejected, no request and no task changes its
\* status or writes a score or an analysis to it (it can only be deleted).
C6_RejectedIsTerminal ==
    [][\A a \in AppIds :
          (apps[a].status = "rejected" /\ apps'[a].status # "none")
             => apps'[a] = apps[a]]_vars

InternalEdges ==
    { <<"requested", "approved">>, <<"requested", "rejected">>,
      <<"approved", "analyzed">>, <<"approved", "processing">>,
      <<"processing", "analyzed">> }

ExternalEdges ==
    { <<"queued", "analyzed">>, <<"analyzed", "shortlisted">> }

\* C7: every status change of an existing record follows one of the edges
\* of the two lifecycles.
C7_LegalEdges ==
    [][/\ \A a \in AppIds :
            (apps[a].status # "none" /\ apps'[a].status # "none"
             /\ apps'[a].status # apps[a].status)
               => <<apps[a].status, apps'[a].status>> \in InternalEdges
       /\ \A c \in ExtIds :
            (exts[c].status # "none" /\ exts'[c].status # "none"
             /\ exts'[c].status # exts[c].status)
               => <<exts[c].status, exts'[c].status>> \in ExternalEdges]_vars

RowsInStatus(j, u, status) ==
    { a \in AppIds : apps[a].job_id = j /\ apps[a].user_id = u
                     /\ apps[a].status = status }

\* C8: approve_request on a requested application moves it to approved;
\* approve_request on the application once it is approved fails with a
\* client error and leaves every application (status, score, analyses)
\* as it was.
C8_SecondApproveFails ==
    [][\A j \in JobIds, u \in Users :
          approve_request(j, u) =>
             /\ RowsInStatus(j, u, "requested") # {} =>
                   /\ lastResp'.code = 200
                   /\ \E a \in RowsInStatus(j, u, "requested") :
                         apps'[a].status = "approved"
             /\ (RowsInStatus(j, u, "requested") = {}
                 /\ RowsInStatus(j, u, "approved") # {}) =>
                   /\ lastResp'.code \in 400..499
                   /\ apps' = apps]_vars

\* an approved, scored application whose approval was asked for again
C8_Witness ==
    /\ lastResp.op = "approve_request"
    /\ lastResp.code = 404
    /\ \E a \in AppIds :
          /\ apps[a].job_id = lastResp.job_id
          /\ apps[a].user_id = lastResp.user_id
          /\ apps[a].status = "approved"
          /\ apps[a].final_score # NULL

\* C9: approve_request or reject_request on an application that is not in
\* status requested fails with a client error that includes the current
\* status of the application.
C9_ErrorNamesStatus ==
    [][\A j \in JobIds, u \in Users :
          ((approve_request(j, u) \/ reject_request(j, u))
           /\ RowsInStatus(j, u, "requested") = {}
           /\ AppsOf(apps, j, u) # {}) =>
             /\ lastResp'.code \in 400..499
             /\ \E a \in AppsOf(apps, j, u) :
                   lastResp'.status = apps[a].status]_vars

\* C10: an application in status approved belongs to a candidate who has
\* extracted resume text.
C10_ApprovedHasResumeText ==
    \A a \in AppIds :
        apps[a].status = "approved" => HasText(apps[a].user_id)

\* C11: every row of job_applications is created in status requested and
\* every row of external_candidates is created in status queued.
C11_CreatedRequestedOrQueued ==
    [][/\ \A a \in AppIds :
            (apps[a].status = "none" /\ apps'[a].status # "none")
               => apps'[a].status = "requested"
       /\ \A c \in ExtIds :
            (exts[c].status = "none" /\ exts'[c].status # "none")
               => exts'[c].status = "queued"]_vars

\* C12: every final_score that is set, on an internal application or an
\* external candidate, lies in [0, 1], whichever handler or task wrote it.
C12_StoredScoreInRange ==
    /\ \A a \in AppIds :
          apps[a].final_score # NULL => apps[a].final_score \in 0..100
    /\ \A c \in ExtIds :
          exts[c].final_score # NULL => exts[c].final_score \in 0..100

\* a worker stored the score of a document whose experience score is on
\* the scale of 0 to 10
C12_Witness ==
    \E a \in AppIds :
        /\ apps[a].status = "analyzed"
        /\ apps[a].final_score = 71
        /\ apps[a].analysis_interviewer.experience_fit_score = 600

\* C13: calculate_final_score of any interviewer document, whatever
\* numbers its score fields hold (other scales, negative), is in [0, 1].
C13_ScoreInRange ==
    retry.pc = "scored" => retry.final_score \in 0..100

\* the score of a document with 8.0 as technical score, -0.5 as experience
\* score and 15 as keyword score
C13_Witness ==
    /\ retry.pc = "scored"
    /\ IsMapping(retry.out.doc)
    /\ retry.out.doc.missing = {}
    /\ retry.out.doc.technical_fit_score = 800
    /\ retry.out.doc.experience_fit_score = -50
    /\ retry.out.doc.keyword_match_score = 1500
    /\ retry.out.doc.must_have_skills = <<-20, 40>>

\* clamp(x, lo, hi)
Clamp(x, lo, hi) == IF x < lo THEN lo ELSE IF x > hi THEN hi ELSE x

RECURSIVE SumClamp01(_, _)
SumClamp01(skills, i) ==
    IF i > Len(skills) THEN 0
    ELSE Clamp(skills[i], 0, 100) + SumClamp01(skills, i + 1)

\* the formula of the scoring contract, in hundredths:
\* clamp01(0.40*clamp01(t) + 0.30*clamp01(e) + 0.20*clamp(k,0,10)/10
\*         + 0.10*avgSkill), rounded to 2 decimals
ContractScore(doc) ==
    LET skills == doc.must_have_skills
        n == IF skills = <<>> THEN 1 ELSE Len(skills)
        \* n * avgSkill
        skill_sum == IF skills = <<>> THEN 50 ELSE SumClamp01(skills, 1)
        \* units of 1/10000
        terms == 40 * Clamp(doc.technical_fit_score, 0, 100)
                 + 30 * Clamp(doc.experience_fit_score, 0, 100)
                 + 2 * Clamp(doc.keyword_match_score, 0, 1000)
    IN  Round2(Clamp(terms * n + 10 * skill_sum, 0, 10000 * n), 100 * n)

\* an interviewer document with every section and a number in every field
\* the scoring reads
AllNumeric(doc) ==
    /\ IsMapping(doc)
    /\ doc.missing \cap Sections = {}
    /\ IsNum(doc.technical_fit_score)
    /\ IsNum(doc.experience_fit_score)
    /\ IsNum(doc.keyword_match_score)
    /\ \A i \in 1..Len(doc.must_have_skills) : IsNum(doc.must_have_skills[i])

\* technical 0.8, experience 0.6, keyword 8, one skill of proficiency 1.0
ExampleDoc == Doc("interviewer", "model", {}, 80, 60, 800, <<100>>)

\* C14: for a document with numeric fields calculate_final_score is the
\* weighted sum of the contract, clamped and rounded; the example scores
\* 0.76, and an empty must_have_skills contributes 0.05.
C14_WeightedFormula ==
    (retry.pc = "scored" /\ AllNumeric(retry.out.doc)) =>
        /\ retry.final_score = ContractScore(retry.out.doc)
        /\ retry.out.doc = ExampleDoc => retry.final_score = 76
        /\ retry.out.doc = [ExampleDoc EXCEPT !.must_have_skills = <<>>]
              => retry.final_score = 71
        /\ retry.out.doc = Doc("interviewer", "model", {}, 0, 0, 0, <<>>)
              => retry.final_score = 5

C14_Witness ==
    /\ retry.pc = "scored"
    /\ retry.out.doc = ExampleDoc
    /\ retry.final_score = 76

\* the document with every absent score written out as its default
WithDefaults(doc) ==
    LET no_assessment == "preliminary_assessment" \in doc.missing
        no_analysis == "resume_analysis" \in doc.missing
    IN  [doc EXCEPT
           !.missing = @ \ {"preliminary_assessment", "resume_analysis"},
           !.technical_fit_score =
               IF no_assessment \/ @ = Absent THEN 50 ELSE @,
           !.experience_fit_score =
               IF no_assessment \/ @ = Absent THEN 50 ELSE @,
           !.keyword_match_score =
               IF no_analysis \/ @ = Absent THEN 500 ELSE @]

\* C15: an absent technical or experience score counts as 0.5 and an absent
\* keyword score as 5.0 (before the division by 10), also when the whole
\* section is absent; the function does not fail on them.
C15_AbsentIsNeutral ==
    (retry.pc \in {"scored", "score_raised"}
     /\ IsMapping(retry.out.doc)
     /\ ScoreException(retry.out.doc) = "") =>
        /\ retry.pc = "scored"
        /\ retry.final_score = WeightedScore(WithDefaults(retry.out.doc))

\* no preliminary_assessment.technical_fit_score and no resume_analysis
\* section: 0.5*0.4 + 0.6*0.3 + 0.5*0.2 + 0.05
C15_Witness ==
    /\ retry.pc = "scored"
    /\ IsMapping(retry.out.doc)
    /\ retry.out.doc.missing = {"resume_analysis"}
    /\ retry.out.doc.technical_fit_score = Absent
    /\ retry.out.doc.experience_fit_score = 60
    /\ retry.out.doc.must_have_skills = <<>>
    /\ retry.final_score = 53

\* C16: calculate_final_score never raises; when its body fails (a
\* document, a section or a must_have_skills entry that is no mapping) it
\* returns exactly 0.5.
C16_ScoreNeverRaises ==
    /\ retry.pc # "score_raised"
    /\ (retry.pc = "scored" /\ ScoreException(retry.out.doc) # "")
          => retry.final_score = 50

\* scored although the second entry of must_have_skills is no mapping
C16_Witness ==
    /\ retry.pc = "scored"
    /\ IsMapping(retry.out.doc)
    /\ retry.out.doc.must_have_skills = <<100, NotMapping>>
    /\ retry.out.doc.missing = {}
    /\ retry.final_score = 50

\* C17: the fallback document of each schema holds every field the schema
\* lists as required, at every nesting level.
C17_FallbackHasRequired ==
    (retry.pc = "returned" /\ retry.out.doc = Fallback(retry.schema)) =>
        /\ Required(retry.schema) \subseteq FallbackPaths(retry.schema)
        /\ RequiredPaths(retry.schema) \subseteq FallbackPaths(retry.schema)
        /\ retry.out.doc.missing = {}

\* the interviewer fallback, returned after three transport errors
C17_Witness ==
    /\ retry.pc = "returned"
    /\ retry.schema = "interviewer"
    /\ AllRuns("error")
    /\ retry.out.doc = Fallback("interviewer")

\* C18: a task whose application (or external candidate), job or resume
\* text is missing changes no record and ends by returning, not by raising.
C18_MissingItemIsDropped ==
    [][/\ \A j \in JobIds, u \in Users :
            (/\ process_internal_resume(j, u)
             /\ \/ AppsOf(apps, j, u) = {}
                \/ j \notin jobs
                \/ resumes[u] # "text") =>
                /\ apps' = apps
                /\ <<jobs', resumes', exts'>> = <<jobs, resumes, exts>>
                /\ lastResp'.status = "dropped"
       /\ \A c \in ExtIds :
            (/\ process_external_resume(c)
             /\ \/ exts[c].status = "none"
                \/ exts[c].job_id \notin jobs
                \/ exts[c].raw_resume_text = "") =>
                /\ exts' = exts
                /\ <<jobs', resumes', apps'>> = <<jobs, resumes, apps>>
                /\ lastResp'.status = "dropped"]_vars

\* a worker ran the task of an application that had been deleted, while
\* the job and the resume text were there
C18_Witness ==
    /\ lastResp.op = "process_internal_resume"
    /\ lastResp.status = "dropped"
    /\ lastResp.job_id \in jobs
    /\ HasText(lastResp.user_id)
    /\ AppsOf(apps, lastResp.job_id, lastResp.user_id) = {}

\* a record that shows the whole result of a task
WholeResult(row) ==
    /\ row.status = "analyzed"
    /\ row.final_score # NULL
    /\ IsMapping(row.analysis_candidate)
    /\ IsMapping(row.analysis_interviewer)
    /\ row.final_score = calculate_final_score(row.analysis_interviewer)

\* C19: the result of a task becomes visible as a whole: a record a task
\* has changed carries status analyzed, the score and both analyses of
\* that run, and no record is ever analyzed without them.
C19_ResultCommittedAsOne ==
    /\ [](/\ \A a \in AppIds :
               apps[a].status = "analyzed" => WholeResult(apps[a])
          /\ \A c \in ExtIds :
               exts[c].status = "analyzed" => WholeResult(exts[c]))
    /\ [][/\ \A a \in AppIds :
               (lastResp'.op = "process_internal_resume"
                /\ apps'[a] # apps[a]) =>
                   /\ WholeResult(apps'[a])
                   /\ lastResp'.status = "committed"
          /\ \A c \in ExtIds :
               (lastResp'.op = "process_external_resume"
                /\ exts'[c] # exts[c]) =>
                   /\ WholeResult(exts'[c])
                   /\ lastResp'.status = "committed"]_vars

\* a processing application that a worker has just analyzed
C19_Witness ==
    /\ lastResp.op = "process_internal_resume"
    /\ lastResp.status = "committed"
    /\ \E a \in AppsOf(apps, lastResp.job_id, lastResp.user_id) :
          /\ apps[a].status = "analyzed"
          /\ apps[a].final_score = 76
          /\ apps[a].analysis_candidate = Fallback("candidate")

\* the number of results with a non-null score
NValid(results) ==
    Cardinality({ i \in 1..Len(results) : results[i].score # NULL })

\* max(1, floor(0.2 * n)) for n > 0 and 0 for n = 0, with floor(0.2 * n)
\* the k for which 5k <= n < 5k + 5
ContractShortlistSize(n) ==
    IF n = 0 THEN 0
    ELSE LET k == CHOOSE k \in 0..n : 5 * k <= n /\ n < 5 * k + 5
         IN  IF k >= 1 THEN k ELSE 1

\* C20: the shortlisted_count a bulk upload answers is max(1, floor(0.2 *
\* n_valid)) when n_valid > 0 and 0 otherwise: 1 for 5, 2 for 11, 0 for 0.
C20_ShortlistSize ==
    (lastResp.code = 200 /\ lastResp.op = "upload_multiple_cvs") =>
        LET n_valid == NValid(lastResp.ranked_candidates) IN
          /\ lastResp.total_processed = n_valid
          /\ lastResp.shortlisted_count = ContractShortlistSize(n_valid)
          /\ n_valid = 5 => lastResp.shortlisted_count = 1
          /\ n_valid = 11 => lastResp.shortlisted_count = 2
          /\ n_valid = 0 => lastResp.shortlisted_count = 0

\* the answer to a batch with 11 scored results
C20_Witness ==
    /\ lastResp.code = 200
    /\ lastResp.op = "upload_multiple_cvs"
    /\ NValid(lastResp.ranked_candidates) = 11
    /\ lastResp.shortlisted_count = 2

BulkOps == {"upload_multiple_cvs", "attach_vault_files"}

\* the place of record c among the records created together with it: by
\* score descending, equal scores in the order of insertion
RankInBatch(es, batch, c) ==
    1 + Cardinality({ d \in batch :
                        \/ es[d].final_score > es[c].final_score
                        \/ /\ es[d].final_score = es[c].final_score
                           /\ d < c })

\* C21: after a bulk upload the records of the batch that are shortlisted
\* are exactly the first shortlist_count of the batch by score descending,
\* ties in insertion order, and every other record of the batch is
\* analyzed, also when two files give the same candidate name.
C21_TopOfBatchShortlisted ==
    [][(lastResp'.op \in BulkOps /\ nextExt' > nextExt) =>
          LET batch == nextExt..(nextExt' - 1) IN
            \A c \in batch :
               exts'[c].status =
                  IF RankInBatch(exts', batch, c)
                        <= ContractShortlistSize(Cardinality(batch))
                  THEN "shortlisted" ELSE "analyzed"]_vars

\* the files of the last bulk request that gave no stored analysis: no
\* text could be extracted, the vault file is not on disk, or the external
\* model failed on every call
FailedFiles ==
    { i \in 1..Len(lastResp.files) :
        \/ lastResp.files[i].read \in {"empty", "missing"}
        \/ i \in lastResp.model_failed }

\* C22: every file of a bulk batch whose text extraction or analysis failed
\* is in ranked_candidates with a null score and an error marker, and is
\* not counted in n_valid.
C22_FailedFilesFlagged ==
    (lastResp.op \in BulkOps /\ lastResp.code = 200) =>
        LET flagged == { k \in 1..Len(lastResp.ranked_candidates) :
                           /\ lastResp.ranked_candidates[k].score = NULL
                           /\ lastResp.ranked_candidates[k].error # "" }
            read == { i \in 1..Len(lastResp.files) :
                        lastResp.files[i].read = "text" }
        IN  /\ \A i \in FailedFiles :
                  \E k \in flagged :
                     lastResp.ranked_candidates[k].candidate_name
                        = lastResp.files[i].name
            /\ Cardinality(flagged) = Cardinality(FailedFiles)
            /\ lastResp.total_processed = Cardinality(read \ FailedFiles)

\* C29: the shortlisting step of a bulk upload leaves the status of every
\* external candidate created by an earlier batch unchanged.
C29_EarlierBatchesUntouched ==
    [][lastResp'.op \in BulkOps =>
          \A c \in ExtIds :
             (c < nextExt /\ exts[c].status # "none")
                => exts'[c].status = exts[c].status]_vars

\* the calls of the invocation whose response is non-empty JSON text
ParsedCalls == { i \in 1..MAX_RETRIES : retry.run[i].kind = "json" }

\* C26: _parse_with_retry makes at most 3 calls and none after the first
\* call whose response is non-empty and parses as JSON; it returns that
\* parsed response, and the fallback only after 3 failed calls.
C26_StopsAtFirstParsed ==
    retry.pc = "returned" =>
        /\ retry.out.calls <= 3
        /\ \A i \in ParsedCalls :
              (\A k \in ParsedCalls : i <= k) =>
                 /\ retry.out.calls = i
                 /\ retry.out.doc = retry.run[i].doc
        /\ retry.out.doc = Fallback(retry.schema) =>
              /\ ParsedCalls = {}
              /\ retry.out.calls = 3

\* the second call is the first that parses, and the third would have
\* given another document
C26_Witness ==
    /\ retry.pc = "returned"
    /\ retry.run[1].kind = "garbage"
    /\ retry.run[2].kind = "json"
    /\ retry.run[3].kind = "json"
    /\ retry.run[3].doc # retry.run[2].doc
    /\ retry.out.calls = 2
    /\ retry.out.doc = retry.run[2].doc

\* what a value of a score field contributes: an absent one the neutral
\* value, a present one that is no number the value given for it
Contributes(value, absent, not_a_number) ==
    IF value = Absent THEN absent
    ELSE IF value = NonNum THEN not_a_number
    ELSE value

\* the document with every score field replaced by what C30 says it
\* contributes
AsContributed(doc) ==
    LET assessment == "preliminary_assessment" \notin doc.missing
        analysis == "resume_analysis" \notin doc.missing
        requirements == "job_requirements" \notin doc.missing
    IN  Doc(doc.schema, doc.src, {},
            Contributes(IF assessment THEN doc.technical_fit_score
                        ELSE Absent, 50, 0),
            Contributes(IF assessment THEN doc.experience_fit_score
                        ELSE Absent, 50, 0),
            Contributes(IF analysis THEN doc.keyword_match_score
                        ELSE Absent, 500, 500),
            IF requirements
            THEN [i \in 1..Len(doc.must_have_skills) |->
                    Contributes(doc.must_have_skills[i], 50, 0)]
            ELSE <<>>)

\* C30: in calculate_final_score a technical_fit_score, experience_fit_score
\* or candidate_proficiency that is present but no number contributes as
\* 0.0 and an absent one as 0.5; a keyword_match_score that is no number
\* contributes as 5.0 before the division.
C30_NotANumberIsZero ==
    (retry.pc = "scored" /\ IsMapping(retry.out.doc)
     /\ ScoreException(retry.out.doc) = "") =>
        retry.final_score = ContractScore(AsContributed(retry.out.doc))

\* technical and keyword score are no numbers, one proficiency of two is
\* none: 0*0.4 + 0.6*0.3 + 0.5*0.2 + 0.5*0.1
C30_Witness ==
    /\ retry.pc = "scored"
    /\ retry.out.doc =
          Doc("interviewer", "model", {}, NonNum, 60, NonNum, <<NonNum, 100>>)
    /\ retry.final_score = 33

\* the applications of (j, u) that wait for their analysis
ProcessingApps(j, u) ==
    { a \in AppsOf(apps, j, u) : apps[a].status = "processing" }

\* the step is call c's loop of process_internal_resume.delay
Enqueues(c) ==
    /\ calls[c].op = "attach_internal"
    /\ calls[c].pc = "enqueue"
    /\ calls'[c] # calls[c]

\* C23: under any interleaving of attach_internal calls, a call enqueues a
\* WorkItem for (job, user) only when no application for (job, user) other
\* than the one it has just inserted is in status processing: there is no
\* second WorkItem while an analysis is outstanding.
C23_NoSecondEnqueue ==
    [][\A c \in CallIds, u \in Users :
          (Enqueues(c) /\ queue'[<<calls[c].job_id, u>>]
                             > queue[<<calls[c].job_id, u>>])
          => /\ ProcessingApps(calls[c].job_id, u) \subseteq
                    Range(calls[c].inserted)
             /\ queue'[<<calls[c].job_id, u>>]
                    = queue[<<calls[c].job_id, u>>] + 1]_vars


\* call c is a run of process_internal_resume and the step is one of its
\* statements after the queries
TaskStep(c) ==
    /\ calls[c].op = "process_internal_resume"
    /\ calls[c].pc \in {"candidate", "interviewer", "commit"}
    /\ calls'[c] # calls[c]

\* C24: a run of the task in which the model fails on every call does not
\* raise from the analysis; it reaches its commit with the two fallback
\* documents and their score, and the commit, unless the database itself
\* fails it, stores them with status analyzed.
C24_ModelFailureIsNotATaskFailure ==
    [][\A c \in CallIds :
          (TaskStep(c) /\ ~calls'[c].answered)
          => /\ calls'[c].outcome # "raised"
             /\ calls'[c].pc = "commit" =>
                  /\ calls'[c].candidate_analysis = Fallback("candidate")
                  /\ calls'[c].interviewer_analysis = Fallback("interviewer")
                  /\ calls'[c].final_score =
                        calculate_final_score(Fallback("interviewer"))
             /\ calls'[c].outcome = "committed" =>
                  /\ apps'[calls[c].app].status = "analyzed"
                  /\ apps'[calls[c].app].analysis_candidate =
                        Fallback("candidate")
                  /\ apps'[calls[c].app].analysis_interviewer =
                        Fallback("interviewer")
                  /\ apps'[calls[c].app].final_score =
                        calculate_final_score(Fallback("interviewer"))]_vars

\* a run without any answer of the model has committed its row
C24_Witness ==
    \E c \in CallIds :
       /\ calls[c].op = "process_internal_resume"
       /\ calls[c].outcome = "committed"
       /\ ~calls[c].answered
       /\ apps[calls[c].app].status = "analyzed"
       /\ apps[calls[c].app].analysis_candidate = Fallback("candidate")
       /\ apps[calls[c].app].analysis_interviewer = Fallback("interviewer")

\* C25: when the commit of a task fails, the row keeps its status, score
\* and analyses, and the item is delivered again (it is back in the queue).
C25_FailedCommitIsRetried ==
    [][\A c \in CallIds :
          (TaskStep(c) /\ calls'[c].outcome = "commit_failed")
          => /\ apps' = apps
             /\ queue'[<<calls[c].job_id, Head(calls[c].user_ids)>>] =
                   queue[<<calls[c].job_id, Head(calls[c].user_ids)>>] + 1]_vars

\* call c enqueues after its commit: every row it added has got its id
EnqueuesAfterCommit(c) ==
    /\ Len(calls[c].inserted) = Len(calls[c].queued_users)
    /\ \A k \in 1..Len(calls[c].inserted) :
          /\ calls[c].inserted[k] < nextApp
          /\ \/ apps[calls[c].inserted[k]].status = "none"
             \/ /\ apps[calls[c].inserted[k]].job_id = calls[c].job_id
                /\ apps[calls[c].inserted[k]].user_id =
                      calls[c].queued_users[k]
    /\ \A u \in Users :
          queue'[<<calls[c].job_id, u>>] > queue[<<calls[c].job_id, u>>]
             => u \in Range(calls[c].queued_users)

\* a worker takes an item of (j, u)
PicksUp(j, u) == queue'[<<j, u>>] < queue[<<j, u>>]

\* some application has been deleted
DeletedApps == { a \in AppIds : a < nextApp /\ apps[a].status = "none" }

\* C27 as stated: attach_internal enqueues only after its commit, and a
\* worker that picks an item up finds the application row.
C27_WorkerAlwaysFindsTheRow ==
    [][/\ \A c \in CallIds : Enqueues(c) => EnqueuesAfterCommit(c)
       /\ \A j \in JobIds, u \in Users :
             PicksUp(j, u) => AppsOf(apps, j, u) # {}]_vars

\* C27, amended: attach_internal enqueues only after its commit, and a
\* worker that picks an item up finds the application row unless an
\* application has been deleted since.
C27_EnqueuedAfterCommit ==
    [][/\ \A c \in CallIds : Enqueues(c) => EnqueuesAfterCommit(c)
       /\ \A j \in JobIds, u \in Users :
             PicksUp(j, u) =>
                (AppsOf(apps, j, u) # {} \/ DeletedApps # {})]_vars

\* an attach_internal call has answered, and the worker has found the row
\* and stored its analysis
C27_Witness ==
    /\ \E c \in CallIds :
          /\ calls[c].op = "attach_internal"
          /\ calls[c].pc = "done"
          /\ calls[c].code = 200
    /\ lastResp.op = "process_internal_resume"
    /\ lastResp.status = "committed"
    /\ \E a \in AppIds :
          /\ apps[a].status = "analyzed"
          /\ apps[a].job_id = lastResp.job_id
          /\ apps[a].user_id = lastResp.user_id
    /\ DeletedApps = {}

\* call c was an approve_request or reject_request that succeeded
Decided(c) ==
    /\ calls[c].op \in {"approve_request", "reject_request"}
    /\ calls[c].pc = "done"
    /\ calls[c].code = 200

\* C28: of the approve_request and reject_request calls on one requested
\* application at most one succeeds: no two calls both answer 200 (and
\* store their notification), and the status of the application is the
\* one the successful call has set.
C28_AtMostOneDecision ==
    /\ \A c, d \in CallIds :
          (c # d /\ Decided(c) /\ Decided(d)) => calls[c].app # calls[d].app
    /\ \A c \in CallIds :
          Decided(c) => apps[calls[c].app].status = calls[c].notified

====
